---- MODULE Spec2Model ----
(***************************************************************************)
(* Model of the STM32F072RB SmartAgri firmware (stm32_src/smartagri.c).    *)
(*                                                                         *)
(* Registers are 32 bits wide.  A register whose bits are used one by one  *)
(* is modelled as the set of positions of its set bits (a subset of        *)
(* 0..31), so that  |= m  is union,  &= ~m  is set difference,  ^= m  is   *)
(* symmetric difference and  & (1 << k)  is membership of k.  Registers    *)
(* that carry a number (ADC_DR, USART2_TDR, USART2_BRR) are integers.      *)
(* Characters are their ASCII codes; a C string literal is the tuple of    *)
(* its codes followed by the terminating NUL.                              *)
(***************************************************************************)
EXTENDS Integers, Sequences, FiniteSets, TLC

(***************************************************************************)
(* Bounds of the model.                                                    *)
(***************************************************************************)
\* the iteration counter k is kept modulo 2 * MaxIter
MaxIter == 2
\* uart_putnum is applied to every integer of -NumRange..NumRange
NumRange == 120

(***************************************************************************)
(* Program constants.                                                      *)
(***************************************************************************)
\* int is 32 bits wide on the Cortex-M0 (two's complement)
INT_MAX == 2147483647
INT_MIN == (-2147483647) - 1
\* largest code of the 12-bit converter, the divisor of line 151
AdcMax == 4095
\* bit positions
TXE == 7
EOC == 2
ADSTART == 2
ADCAL == 31
ADEN == 0
ADRDY == 0
LED == 5
RAIN_PIN == 4

\* string literals of the source, NUL-terminated
\* "STM32F072RB SmartAgri Started\r\n"
BANNER == <<83, 84, 77, 51, 50, 70, 48, 55, 50, 82, 66, 32, 83, 109, 97, 114,
            116, 65, 103, 114, 105, 32, 83, 116, 97, 114, 116, 101, 100, 13,
            10, 0>>
\* "{\"moisture\":"
S_MOISTURE == <<123, 34, 109, 111, 105, 115, 116, 117, 114, 101, 34, 58, 0>>
\* ",\"temp\":"
S_TEMP == <<44, 34, 116, 101, 109, 112, 34, 58, 0>>
\* ",\"ph\":"
S_PH == <<44, 34, 112, 104, 34, 58, 0>>
\* ",\"rain\":"
S_RAIN == <<44, 34, 114, 97, 105, 110, 34, 58, 0>>
\* ",\"water_level\":"
S_WATER == <<44, 34, 119, 97, 116, 101, 114, 95, 108, 101, 118, 101, 108, 34,
             58, 0>>
\* "}\r\n"
S_END == <<125, 13, 10, 0>>

(***************************************************************************)
(* C integer arithmetic: / truncates towards zero, % takes the sign of the *)
(* dividend (the divisor is positive everywhere in the program).           *)
(***************************************************************************)
CMod(a, b) ==
  LET m == a % b IN IF a < 0 /\ m # 0 THEN m - b ELSE m

CDiv(a, b) == (a - CMod(a, b)) \div b

\* -num on a 32-bit int.  -INT_MIN is not representable: signed overflow is
\* undefined; the Cortex-M0 NEGS/RSBS instruction wraps it to INT_MIN.
Negate(num) == IF num = INT_MIN THEN INT_MIN ELSE 0 - num

\* What the build makes of the undefined negation in uart_putnum:
\*   "wrap"    the loop `while(num > 0)` is compiled as written;
\*   "rotated" the compiler uses num > 0 after `num = -num` (true whenever
\*             the negation is defined) and drops the first loop test.
UBChoices == {"wrap", "rotated"}

(***************************************************************************)
(* Blocking output primitives, as the sequence of characters they pass to  *)
(* uart_putchar.                                                           *)
(***************************************************************************)
RECURSIVE uart_puts(_)
uart_puts(s) ==
  IF s = <<>> \/ Head(s) = 0 THEN <<>>
  ELSE <<Head(s)>> \o uart_puts(Tail(s))

\* while(num > 0) { buf[i++] = '0' + (num % 10); num /= 10; }
RECURSIVE FillBuf(_, _, _)
FillBuf(num, buf, skipTest) ==
  IF ~skipTest /\ ~(num > 0) THEN buf
  ELSE FillBuf(CDiv(num, 10), Append(buf, 48 + CMod(num, 10)), FALSE)

\* while(i > 0) uart_putchar(buf[--i]);
RECURSIVE DrainBuf(_)
DrainBuf(buf) ==
  IF buf = <<>> THEN <<>>
  ELSE <<buf[Len(buf)]>> \o DrainBuf(SubSeq(buf, 1, Len(buf) - 1))

uart_putnum(num, ub) ==
  IF num = 0 THEN <<48>>
  ELSE LET sign == IF num < 0 THEN <<45>> ELSE <<>>
           n1   == IF num < 0 THEN Negate(num) ELSE num
       IN  sign \o DrainBuf(FillBuf(n1, <<>>, ub = "rotated"))

send_json(m, t, p, r, w, ub) ==
  uart_puts(S_MOISTURE) \o uart_putnum(m, ub) \o
  uart_puts(S_TEMP)     \o uart_putnum(t, ub) \o
  uart_puts(S_PH)       \o uart_putnum(p, ub) \o
  uart_puts(S_RAIN)     \o uart_putnum(r, ub) \o
  uart_puts(S_WATER)    \o uart_putnum(w, ub) \o
  uart_puts(S_END)

\* int moisture = (moisture_raw * 100) / 4095;
MoisturePercent_4096(raw) == CDiv(raw * 100, AdcMax + 1)

MoisturePercent_divfirst(raw) == CDiv(raw, AdcMax) * 100

MoisturePercent(raw) == CDiv(raw * 100, AdcMax)

(***************************************************************************)
(* Reading the link: decimal parsing and field extraction, used to state   *)
(* the properties of the transmitted text.                                 *)
(***************************************************************************)
IsDigit(c) == c \in 48..57

\* value of a non-empty digit string, accumulated with the given sign so
\* that the most negative integer is reached without overflow
RECURSIVE ParseDigits(_, _, _)
ParseDigits(s, acc, sgn) ==
  IF s = <<>> THEN acc
  ELSE ParseDigits(Tail(s), acc * 10 + sgn * (Head(s) - 48), sgn)

\* [ok |-> the text is an optional '-' followed by one or more digits,
\*  val |-> its value]
ParseInt(s) ==
  LET neg  == s # <<>> /\ Head(s) = 45
      body == IF neg THEN Tail(s) ELSE s
      ok   == /\ body # <<>>
              /\ Len(body) <= 10
              /\ \A i \in 1..Len(body) : IsDigit(body[i])
  IN  IF ok THEN [ok |-> TRUE, val |-> ParseDigits(body, 0, IF neg THEN -1 ELSE 1)]
      ELSE [ok |-> FALSE, val |-> 0]

\* decimal rendering, most significant digit first, computed on
\* non-positive numbers so that it is defined on all of INT_MIN..INT_MAX
RECURSIVE DecNeg(_)
DecNeg(n) ==
  IF n > -10 THEN <<48 - n>>
  ELSE DecNeg(CDiv(n, 10)) \o <<48 - CMod(n, 10)>>

Dec(n) == IF n < 0 THEN <<45>> \o DecNeg(n) ELSE DecNeg(0 - n)

IsPrefix(p, s) == Len(p) <= Len(s) /\ SubSeq(s, 1, Len(p)) = p

EndsCRLF(s) == Len(s) >= 2 /\ s[Len(s) - 1] = 13 /\ s[Len(s)] = 10

\* the text, without its NUL
Text(lit) == SubSeq(lit, 1, Len(lit) - 1)

\* the characters of s from position i up to the first one that is neither
\* a digit nor '-'
RECURSIVE NumberAt(_, _)
NumberAt(s, i) ==
  IF i > Len(s) \/ ~(IsDigit(s[i]) \/ s[i] = 45) THEN <<>>
  ELSE <<s[i]>> \o NumberAt(s, i + 1)

\* the number that follows the first occurrence of key in line
Field(line, key) ==
  LET n   == Len(key)
      pos == {i \in 1..(Len(line) - n + 1) : SubSeq(line, i, i + n - 1) = key}
  IN  IF pos = {} THEN [ok |-> FALSE, val |-> 0]
      ELSE LET i == CHOOSE j \in pos : \A j2 \in pos : j <= j2
           IN  ParseInt(NumberAt(line, i + n))

\* the record of section 6 of the specification for five field values
RecordText(m, t, p, r, w) ==
  Text(S_MOISTURE) \o Dec(m) \o Text(S_TEMP) \o Dec(t) \o Text(S_PH) \o Dec(p)
  \o Text(S_RAIN) \o Dec(r) \o Text(S_WATER) \o Dec(w) \o Text(S_END)

(***************************************************************************)
(* State.                                                                  *)
(***************************************************************************)
VARIABLES
  pc,            \* program location
  ret,           \* location the current string/number output returns to
  txbuf,         \* characters the current output call has still to pass
                 \* to uart_putchar
  RCC_AHBENR, RCC_APB2ENR, RCC_APB1ENR,
  GPIOA_MODER, GPIOA_PUPDR, GPIOA_AFR0, GPIOA_ODR,
  GPIOA_IDR,     \* input register, as last sampled by the program
  USART2_BRR, USART2_CR1, USART2_ISR, USART2_TDR,
  ADC_CR, ADC_ISR, ADC_CHSELR, ADC_DR,
  moisture_raw, ph_raw, rain, moisture, temp, ph, water_level,
  sent,          \* line being passed to uart_putchar (kept until the next
                 \* line begins)
  sentPrev,      \* the line passed to uart_putchar before that one
  rx,            \* line leaving the serial link (kept until the next
                 \* line begins)
  banners,       \* complete banner lines passed to uart_putchar (0, 1, 2+)
  recs,          \* complete lines passed to uart_putchar in this iteration
  k,             \* completed loop iterations, modulo 2 * MaxIter
  odr0,          \* GPIOA_ODR at loop entry
  fn_op, fn_args, fn_out, fn_done   \* a function applied on its own

regs == <<RCC_AHBENR, RCC_APB2ENR, RCC_APB1ENR, GPIOA_MODER, GPIOA_PUPDR,
          GPIOA_AFR0, USART2_BRR, USART2_CR1>>
adc == <<ADC_CR, ADC_ISR, ADC_CHSELR, ADC_DR>>
usart == <<USART2_ISR, USART2_TDR>>
locals == <<moisture_raw, ph_raw, rain, moisture, temp, ph, water_level>>
ghost == <<sent, sentPrev, rx, banners, recs, k, odr0>>
fn == <<fn_op, fn_args, fn_out, fn_done>>
vars == <<pc, ret, txbuf, regs, GPIOA_ODR, GPIOA_IDR, adc, usart, locals,
          ghost, fn>>

KMod == 2 * MaxIter

\* values the converter delivers in the model (12-bit, right aligned)
RawSamples == {0, 2048, AdcMax}
\* values the converter delivers for the pH channel
PhSamples == {1234, AdcMax}
\* values of GPIOA_IDR (16 pins) the program samples in the model
IdrSamples == {{}, {RAIN_PIN}, (0..15) \ {RAIN_PIN}, 0..15}

XorBits(r, m) == (r \ m) \cup (m \ r)

(***************************************************************************)
(* Reset state: main() has not started; registers hold their reset values. *)
(***************************************************************************)
MachineInit ==
  /\ pc = "init_clocks" /\ ret = "none" /\ txbuf = <<>>
  /\ RCC_AHBENR = {2, 4} /\ RCC_APB2ENR = {} /\ RCC_APB1ENR = {}
  /\ GPIOA_MODER = {27, 29} /\ GPIOA_PUPDR = {26, 29} /\ GPIOA_AFR0 = {}
  /\ GPIOA_ODR = {} /\ GPIOA_IDR = {}
  /\ USART2_BRR = 0 /\ USART2_CR1 = {} /\ USART2_ISR = {6, TXE}
  /\ USART2_TDR = 0
  /\ ADC_CR = {} /\ ADC_ISR = {} /\ ADC_CHSELR = {} /\ ADC_DR = 0
  /\ moisture_raw = 0 /\ ph_raw = 0 /\ rain = 0 /\ moisture = 0
  /\ temp = 0 /\ ph = 0 /\ water_level = 0
  /\ sent = <<>> /\ sentPrev = <<>> /\ rx = <<>>
  /\ banners = 0 /\ recs = 0 /\ k = 0 /\ odr0 = {}

Init ==
  /\ MachineInit
  /\ fn_op = "none" /\ fn_args = <<>> /\ fn_out = <<>> /\ fn_done = FALSE

Min(a, b) == IF a <= b THEN a ELSE b

(***************************************************************************)
(* Initialisation (main, lines 136-142).                                   *)
(***************************************************************************)
init_clocks ==
  /\ pc = "init_clocks"
  /\ RCC_AHBENR' = RCC_AHBENR \cup {17, 18}
  /\ RCC_APB2ENR' = RCC_APB2ENR \cup {9}
  /\ RCC_APB1ENR' = RCC_APB1ENR \cup {17}
  /\ pc' = "init_gpio"
  /\ UNCHANGED <<ret, txbuf, GPIOA_MODER, GPIOA_PUPDR, GPIOA_AFR0, USART2_BRR,
                 USART2_CR1, GPIOA_ODR, GPIOA_IDR, adc, usart, locals, ghost,
                 fn>>

init_gpio ==
  /\ pc = "init_gpio"
  /\ GPIOA_MODER' =
       LET m1 == GPIOA_MODER \cup {0, 1, 2, 3}      \* |= (3<<0)|(3<<2)
           m2 == m1 \ {4, 5, 6, 7}                  \* &= ~((3<<4)|(3<<6))
           m3 == m2 \cup {5, 7}                     \* |= (2<<4)|(2<<6)
           m4 == m3 \ {10, 11}                      \* &= ~(3<<10)
           m5 == m4 \cup {10}                       \* |= (1<<10)
       IN  m5 \ {8, 9}                              \* &= ~(3<<8)
  /\ GPIOA_AFR0' = GPIOA_AFR0 \cup {8, 12}
  /\ GPIOA_PUPDR' = GPIOA_PUPDR \cup {8}
  /\ pc' = "init_usart"
  /\ UNCHANGED <<ret, txbuf, RCC_AHBENR, RCC_APB2ENR, RCC_APB1ENR, USART2_BRR,
                 USART2_CR1, GPIOA_ODR, GPIOA_IDR, adc, usart, locals, ghost,
                 fn>>

init_usart ==
  /\ pc = "init_usart"
  /\ USART2_BRR' = 69
  /\ USART2_CR1' = USART2_CR1 \cup {0, 3, 2}
  /\ pc' = "adc_cal"
  /\ UNCHANGED <<ret, txbuf, RCC_AHBENR, RCC_APB2ENR, RCC_APB1ENR,
                 GPIOA_MODER, GPIOA_PUPDR, GPIOA_AFR0, GPIOA_ODR, GPIOA_IDR,
                 adc, usart, locals, ghost, fn>>

\* ADC_CR |= (1 << 31);   the constant shifts a 1 into the sign bit of int;
\* it is folded at compile time to the word with only bit 31 set
init_adc_cal ==
  /\ pc = "adc_cal"
  /\ ADC_CR' = ADC_CR \cup {ADCAL}
  /\ pc' = "adc_cal_wait"
  /\ UNCHANGED <<ret, txbuf, regs, GPIOA_ODR, GPIOA_IDR, ADC_ISR, ADC_CHSELR,
                 ADC_DR, usart, locals, ghost, fn>>

\* while(ADC_CR & (1 << 31));   one evaluation of the condition
init_adc_cal_wait ==
  /\ pc = "adc_cal_wait"
  /\ pc' = IF ADCAL \in ADC_CR THEN "adc_cal_wait" ELSE "adc_en"
  /\ UNCHANGED <<ret, txbuf, regs, GPIOA_ODR, GPIOA_IDR, adc, usart, locals,
                 ghost, fn>>

\* ADC_CR |= (1 << 0);
init_adc_en ==
  /\ pc = "adc_en"
  /\ ADC_CR' = ADC_CR \cup {ADEN}
  /\ pc' = "adc_rdy_wait"
  /\ UNCHANGED <<ret, txbuf, regs, GPIOA_ODR, GPIOA_IDR, ADC_ISR, ADC_CHSELR,
                 ADC_DR, usart, locals, ghost, fn>>

\* while(!(ADC_ISR & (1 << 0)));
init_adc_rdy_wait ==
  /\ pc = "adc_rdy_wait"
  /\ pc' = IF ADRDY \in ADC_ISR THEN "delay_init" ELSE "adc_rdy_wait"
  /\ UNCHANGED <<ret, txbuf, regs, GPIOA_ODR, GPIOA_IDR, adc, usart, locals,
                 ghost, fn>>

\* delay_ms(1000): two counted loops, always terminates
delay_init ==
  /\ pc = "delay_init"
  /\ pc' = "banner"
  /\ UNCHANGED <<ret, txbuf, regs, GPIOA_ODR, GPIOA_IDR, adc, usart, locals,
                 ghost, fn>>

\* uart_puts("STM32F072RB SmartAgri Started\r\n");
banner ==
  /\ pc = "banner"
  /\ txbuf' = uart_puts(BANNER)
  /\ ret' = "loop_entry"
  /\ pc' = "tx_wait"
  /\ UNCHANGED <<regs, GPIOA_ODR, GPIOA_IDR, adc, usart, locals, ghost, fn>>

(***************************************************************************)
(* uart_putchar, once per character of txbuf.                              *)
(***************************************************************************)
uart_putchar_wait_nowait ==
  /\ pc = "tx_wait"
  /\ pc' = "tx_write"
  /\ UNCHANGED <<ret, txbuf, regs, GPIOA_ODR, GPIOA_IDR, adc, usart, locals,
                 ghost, fn>>

\* while(!(USART2_ISR & (1 << 7)));
uart_putchar_wait ==
  /\ pc = "tx_wait"
  /\ pc' = IF TXE \in USART2_ISR THEN "tx_write" ELSE "tx_wait"
  /\ UNCHANGED <<ret, txbuf, regs, GPIOA_ODR, GPIOA_IDR, adc, usart, locals,
                 ghost, fn>>

\* USART2_TDR = c;   the write clears TXE and TC; a byte still in the
\* register is overwritten
uart_putchar_write ==
  /\ pc = "tx_write"
  /\ LET c     == Head(txbuf)
         fresh == EndsCRLF(sent)
         line  == IF fresh THEN <<c>> ELSE Append(sent, c)
     IN  /\ USART2_TDR' = c
         /\ USART2_ISR' = USART2_ISR \ {6, TXE}
         /\ sent' = line
         /\ sentPrev' = IF fresh THEN sent ELSE sentPrev
         /\ banners' = IF EndsCRLF(line) /\ line = Text(BANNER)
                       THEN Min(banners + 1, 2) ELSE banners
         /\ recs' = IF EndsCRLF(line) THEN Min(recs + 1, 2) ELSE recs
  /\ txbuf' = Tail(txbuf)
  /\ pc' = IF Tail(txbuf) = <<>> THEN ret ELSE "tx_wait"
  /\ UNCHANGED <<ret, regs, GPIOA_ODR, GPIOA_IDR, adc, locals, rx, k, odr0,
                 fn>>

(***************************************************************************)
(* The loop (main, lines 144-162).                                         *)
(***************************************************************************)
\* first arrival at while(1)
loop_entry ==
  /\ pc = "loop_entry"
  /\ odr0' = GPIOA_ODR
  /\ pc' = "loop_top"
  /\ UNCHANGED <<ret, txbuf, regs, GPIOA_ODR, GPIOA_IDR, adc, usart, locals,
                 sent, sentPrev, rx, banners, recs, k, fn>>

\* while(1) {   an iteration begins
loop_top ==
  /\ pc = "loop_top"
  /\ recs' = 0
  /\ pc' = "adc0_start"
  /\ UNCHANGED <<ret, txbuf, regs, GPIOA_ODR, GPIOA_IDR, adc, usart, locals,
                 sent, sentPrev, rx, banners, k, odr0, fn>>

StartPc(channel) == IF channel = 0 THEN "adc0_start" ELSE "adc1_start"
WaitPc(channel) == IF channel = 0 THEN "adc0_wait" ELSE "adc1_wait"
RetPc(channel) == IF channel = 0 THEN "adc0_ret" ELSE "adc1_ret"

read_adc_start_nostart(channel) ==
  /\ pc = StartPc(channel)
  /\ ADC_CHSELR' = {channel}
  /\ pc' = WaitPc(channel)
  /\ UNCHANGED <<ret, txbuf, regs, GPIOA_ODR, GPIOA_IDR, ADC_CR, ADC_ISR,
                 ADC_DR, usart, locals, ghost, fn>>

\* ADC_CHSELR = (1 << channel); ADC_CR |= (1 << 2);
read_adc_start(channel) ==
  /\ pc = StartPc(channel)
  /\ ADC_CHSELR' = {channel}
  /\ ADC_CR' = ADC_CR \cup {ADSTART}
  /\ pc' = WaitPc(channel)
  /\ UNCHANGED <<ret, txbuf, regs, GPIOA_ODR, GPIOA_IDR, ADC_ISR, ADC_DR,
                 usart, locals, ghost, fn>>

read_adc_wait_timeout(channel) ==
  /\ pc = WaitPc(channel)
  /\ pc' = RetPc(channel)
  /\ UNCHANGED <<ret, txbuf, regs, GPIOA_ODR, GPIOA_IDR, adc, usart, locals,
                 ghost, fn>>

\* while(!(ADC_ISR & (1 << 2)));
read_adc_wait(channel) ==
  /\ pc = WaitPc(channel)
  /\ pc' = IF EOC \in ADC_ISR THEN RetPc(channel) ELSE WaitPc(channel)
  /\ UNCHANGED <<ret, txbuf, regs, GPIOA_ODR, GPIOA_IDR, adc, usart, locals,
                 ghost, fn>>

\* return ADC_DR;   reading the data register clears EOC
\* int moisture_raw = read_adc(0);  int ph_raw = read_adc(1);
read_adc_ret(channel) ==
  /\ pc = RetPc(channel)
  /\ ADC_ISR' = ADC_ISR \ {EOC}
  /\ IF channel = 0
     THEN moisture_raw' = ADC_DR /\ ph_raw' = ph_raw /\ pc' = "adc1_start"
     ELSE ph_raw' = ADC_DR /\ moisture_raw' = moisture_raw /\ pc' = "rain"
  /\ UNCHANGED <<ret, txbuf, regs, GPIOA_ODR, GPIOA_IDR, ADC_CR, ADC_CHSELR,
                 ADC_DR, usart, rain, moisture, temp, ph, water_level, ghost,
                 fn>>

read_rain_activehigh ==
  /\ pc = "rain"
  /\ \E idr \in IdrSamples :
       /\ GPIOA_IDR' = idr
       /\ rain' = IF RAIN_PIN \in idr THEN 1 ELSE 0
  /\ pc' = "compute"
  /\ UNCHANGED <<ret, txbuf, regs, GPIOA_ODR, adc, usart, moisture_raw,
                 ph_raw, moisture, temp, ph, water_level, ghost, fn>>

\* int rain = (GPIOA_IDR & (1 << 4)) ? 0 : 1;   idr is the level of the 16
\* pins at the time of the read
read_rain ==
  /\ pc = "rain"
  /\ \E idr \in IdrSamples :
       /\ GPIOA_IDR' = idr
       /\ rain' = IF RAIN_PIN \in idr THEN 0 ELSE 1
  /\ pc' = "compute"
  /\ UNCHANGED <<ret, txbuf, regs, GPIOA_ODR, adc, usart, moisture_raw,
                 ph_raw, moisture, temp, ph, water_level, ghost, fn>>

\* lines 151-154
compute ==
  /\ pc = "compute"
  /\ moisture' = MoisturePercent(moisture_raw)
  /\ temp' = 25
  /\ ph' = 7
  /\ water_level' = 75
  /\ pc' = "send_json"
  /\ UNCHANGED <<ret, txbuf, regs, GPIOA_ODR, GPIOA_IDR, adc, usart,
                 moisture_raw, ph_raw, rain, ghost, fn>>

\* send_json(moisture, temp, ph, rain, water_level);
call_send_json ==
  /\ pc = "send_json"
  /\ \E ub \in UBChoices :
       txbuf' = send_json(moisture, temp, ph, rain, water_level, ub)
  /\ ret' = "toggle"
  /\ pc' = "tx_wait"
  /\ UNCHANGED <<regs, GPIOA_ODR, GPIOA_IDR, adc, usart, locals, ghost, fn>>

toggle_set ==
  /\ pc = "toggle"
  /\ GPIOA_ODR' = GPIOA_ODR \cup {LED}
  /\ pc' = "delay_loop"
  /\ UNCHANGED <<ret, txbuf, regs, GPIOA_IDR, adc, usart, locals, ghost, fn>>

\* GPIOA_ODR ^= (1 << 5);
toggle ==
  /\ pc = "toggle"
  /\ GPIOA_ODR' = XorBits(GPIOA_ODR, {LED})
  /\ pc' = "delay_loop"
  /\ UNCHANGED <<ret, txbuf, regs, GPIOA_IDR, adc, usart, locals, ghost, fn>>

delay_loop_rebanner ==
  /\ pc = "delay_loop"
  /\ k' = (k + 1) % KMod
  /\ moisture_raw' = 0 /\ ph_raw' = 0 /\ rain' = 0 /\ moisture' = 0
  /\ temp' = 0 /\ ph' = 0 /\ water_level' = 0
  /\ pc' = "banner"
  /\ UNCHANGED <<ret, txbuf, regs, GPIOA_ODR, GPIOA_IDR, adc, usart, sent,
                 sentPrev, rx, banners, recs, odr0, fn>>

\* delay_ms(500); }   the iteration is complete, its locals go out of scope
delay_loop ==
  /\ pc = "delay_loop"
  /\ k' = (k + 1) % KMod
  /\ moisture_raw' = 0 /\ ph_raw' = 0 /\ rain' = 0 /\ moisture' = 0
  /\ temp' = 0 /\ ph' = 0 /\ water_level' = 0
  /\ pc' = "loop_top"
  /\ UNCHANGED <<ret, txbuf, regs, GPIOA_ODR, GPIOA_IDR, adc, usart, sent,
                 sentPrev, rx, banners, recs, odr0, fn>>

(***************************************************************************)
(* The peripherals.                                                        *)
(***************************************************************************)
\* calibration ends: the hardware clears ADCAL
HwCalDone ==
  /\ ADCAL \in ADC_CR
  /\ ADC_CR' = ADC_CR \ {ADCAL}
  /\ UNCHANGED <<pc, ret, txbuf, regs, GPIOA_ODR, GPIOA_IDR, ADC_ISR,
                 ADC_CHSELR, ADC_DR, usart, locals, ghost, fn>>

\* the enabled converter becomes ready: the hardware sets ADRDY
HwAdcReady ==
  /\ ADEN \in ADC_CR /\ ADCAL \notin ADC_CR /\ ADRDY \notin ADC_ISR
  /\ ADC_ISR' = ADC_ISR \cup {ADRDY}
  /\ UNCHANGED <<pc, ret, txbuf, regs, GPIOA_ODR, GPIOA_IDR, ADC_CR,
                 ADC_CHSELR, ADC_DR, usart, locals, ghost, fn>>

\* a started conversion ends: the hardware latches the sample, sets EOC and
\* clears ADSTART
HwEoc ==
  /\ ADEN \in ADC_CR /\ ADSTART \in ADC_CR
  /\ \E v \in (IF 0 \in ADC_CHSELR THEN RawSamples ELSE PhSamples) :
       ADC_DR' = v
  /\ ADC_ISR' = ADC_ISR \cup {EOC}
  /\ ADC_CR' = ADC_CR \ {ADSTART}
  /\ UNCHANGED <<pc, ret, txbuf, regs, GPIOA_ODR, GPIOA_IDR, ADC_CHSELR,
                 usart, locals, ghost, fn>>

\* the transmitter takes the byte of USART2_TDR to the line and sets TXE
HwDrain ==
  /\ TXE \notin USART2_ISR
  /\ {0, 3} \subseteq USART2_CR1
  /\ rx' = IF EndsCRLF(rx) THEN <<USART2_TDR>> ELSE Append(rx, USART2_TDR)
  /\ USART2_ISR' = USART2_ISR \cup {6, TXE}
  /\ UNCHANGED <<pc, ret, txbuf, regs, GPIOA_ODR, GPIOA_IDR, adc, USART2_TDR,
                 locals, sent, sentPrev, banners, recs, k, odr0, fn>>

Cpu ==
  \/ init_clocks \/ init_gpio \/ init_usart
  \/ init_adc_cal \/ init_adc_cal_wait \/ init_adc_en \/ init_adc_rdy_wait
  \/ delay_init \/ banner
  \/ uart_putchar_wait \/ uart_putchar_write
  \/ loop_entry \/ loop_top
  \/ read_adc_start(0) \/ read_adc_wait(0) \/ read_adc_ret(0)
  \/ read_adc_start(1) \/ read_adc_wait(1) \/ read_adc_ret(1)
  \/ read_rain \/ compute \/ call_send_json \/ toggle \/ delay_loop

Next ==
  \/ init_clocks \/ init_gpio \/ init_usart
  \/ init_adc_cal \/ init_adc_cal_wait \/ init_adc_en \/ init_adc_rdy_wait
  \/ delay_init \/ banner
  \/ uart_putchar_wait \/ uart_putchar_write
  \/ loop_entry \/ loop_top
  \/ read_adc_start(0) \/ read_adc_wait(0) \/ read_adc_ret(0)
  \/ read_adc_start(1) \/ read_adc_wait(1) \/ read_adc_ret(1)
  \/ read_rain \/ compute \/ call_send_json \/ toggle \/ delay_loop
  \/ HwCalDone \/ HwAdcReady \/ HwEoc \/ HwDrain

Spec == Init /\ [][Next]_vars

\* the processor keeps executing and every peripheral completes what it
\* has been asked to do
LiveSpec ==
  /\ Init /\ [][Next]_vars
  /\ WF_vars(Cpu)
  /\ WF_vars(HwCalDone) /\ WF_vars(HwAdcReady) /\ WF_vars(HwEoc)
  /\ WF_vars(HwDrain)

(***************************************************************************)
(* The functions applied on their own: the argument is drawn by the        *)
(* initial state, the action applies the function.                         *)
(***************************************************************************)
NumInputs ==
  ((0 - NumRange)..NumRange) \cup
  {INT_MIN, INT_MIN + 1, -1000000000, 999999999, 1000000000, INT_MAX - 1,
   INT_MAX}

InitNum ==
  /\ MachineInit
  /\ fn_op = "uart_putnum" /\ fn_args \in {<<n>> : n \in NumInputs}
  /\ fn_out = <<>> /\ fn_done = FALSE

apply_uart_putnum ==
  /\ fn_op = "uart_putnum" /\ ~fn_done
  /\ \E ub \in UBChoices : fn_out' = uart_putnum(fn_args[1], ub)
  /\ fn_done' = TRUE
  /\ UNCHANGED <<pc, ret, txbuf, regs, GPIOA_ODR, GPIOA_IDR, adc, usart,
                 locals, ghost, fn_op, fn_args>>

NextNum == apply_uart_putnum

SpecNum == InitNum /\ [][NextNum]_vars

InitJson ==
  /\ MachineInit
  /\ fn_op = "send_json"
  /\ fn_args \in {0, 49, 50, 100, -1, INT_MIN} \X {25, -40, INT_MIN}
                 \X {7, 14, INT_MIN} \X {0, 1} \X {75, INT_MAX, INT_MIN}
  /\ fn_out = <<>> /\ fn_done = FALSE

apply_send_json ==
  /\ fn_op = "send_json" /\ ~fn_done
  /\ \E ub \in UBChoices :
       fn_out' = send_json(fn_args[1], fn_args[2], fn_args[3], fn_args[4],
                           fn_args[5], ub)
  /\ fn_done' = TRUE
  /\ UNCHANGED <<pc, ret, txbuf, regs, GPIOA_ODR, GPIOA_IDR, adc, usart,
                 locals, ghost, fn_op, fn_args>>

NextJson == apply_send_json

SpecJson == InitJson /\ [][NextJson]_vars

InitMoist ==
  /\ MachineInit
  /\ fn_op = "moisture" /\ fn_args \in {<<raw>> : raw \in 0..AdcMax}
  /\ fn_out = <<>> /\ fn_done = FALSE

apply_moisture ==
  /\ fn_op = "moisture" /\ ~fn_done
  /\ fn_out' = <<MoisturePercent(fn_args[1])>>
  /\ fn_done' = TRUE
  /\ UNCHANGED <<pc, ret, txbuf, regs, GPIOA_ODR, GPIOA_IDR, adc, usart,
                 locals, ghost, fn_op, fn_args>>

NextMoist == apply_moisture

SpecMoist == InitMoist /\ [][NextMoist]_vars

(***************************************************************************)
(* Properties.                                                             *)
(***************************************************************************)

\* C1: the characters uart_putnum(n) passes to uart_putchar, parsed as a
\* decimal integer, are n, for every 32-bit integer n, including 0 and
\* INT_MIN.
C1_RoundTrip ==
  (fn_op = "uart_putnum" /\ fn_done) =>
    (ParseInt(fn_out).ok /\ ParseInt(fn_out).val = fn_args[1])

\* "{\"moisture\":50,\"temp\":25,\"ph\":7,\"rain\":0,\"water_level\":75}\r\n"
REC_EXAMPLE ==
  <<123, 34, 109, 111, 105, 115, 116, 117, 114, 101, 34, 58, 53, 48, 44, 34,
    116, 101, 109, 112, 34, 58, 50, 53, 44, 34, 112, 104, 34, 58, 55, 44, 34,
    114, 97, 105, 110, 34, 58, 48, 44, 34, 119, 97, 116, 101, 114, 95, 108,
    101, 118, 101, 108, 34, 58, 55, 53, 125, 13, 10>>

\* C2: for any five field values send_json passes to uart_putchar exactly
\* the record text: the five keys in the order moisture, temp, ph, rain,
\* water_level, each value as a decimal integer, then CR LF, and nothing
\* else; (50, 25, 7, 0, 75) gives the literal line of the specification.
C2_RecordText ==
  (fn_op = "send_json" /\ fn_done) =>
    /\ fn_out = RecordText(fn_args[1], fn_args[2], fn_args[3], fn_args[4],
                           fn_args[5])
    /\ (fn_args = <<50, 25, 7, 0, 75>> => fn_out = REC_EXAMPLE)

\* C3: the moisture percentage (raw * 100) / 4095 is in 0..100 for every
\* raw of 0..4095, does not decrease when raw grows, is 0 at 0 and 100 at
\* 4095.
C3_MoistureBounded ==
  (fn_op = "moisture" /\ fn_done) =>
    LET raw == fn_args[1]
        res == fn_out[1]
    IN  /\ res \in 0..100
        /\ \A raw2 \in raw..AdcMax : res <= MoisturePercent(raw2)
        /\ (raw = 0 => res = 0)
        /\ (raw = AdcMax => res = 100)

C3_Witness ==
  fn_op = "moisture" /\ fn_done /\ fn_args = <<AdcMax>> /\ fn_out = <<100>>

\* "\"moisture\":" and "\"rain\":", the keys a reader of the line looks for
KEY_MOISTURE == <<34, 109, 111, 105, 115, 116, 117, 114, 101, 34, 58>>
KEY_TEMP == <<34, 116, 101, 109, 112, 34, 58>>
KEY_PH == <<34, 112, 104, 34, 58>>
KEY_RAIN == <<34, 114, 97, 105, 110, 34, 58>>
KEY_WATER == <<34, 119, 97, 116, 101, 114, 95, 108, 101, 118, 101, 108, 34, 58>>

\* every byte handed to the transmitter has left on the line
Drained == TXE \in USART2_ISR

\* C4 as stated: when channel 0 returned 2048 in an iteration, the moisture
\* field of the record passed to the transmitter in that iteration is 49.
C4_Moisture2048_Is49 ==
  (pc = "toggle" /\ moisture_raw = 2048) =>
    /\ EndsCRLF(sent)
    /\ Field(sent, KEY_MOISTURE) = [ok |-> TRUE, val |-> 49]

\* C4 amended: when channel 0 returned 2048 in an iteration, the moisture
\* field of the record passed to the transmitter in that iteration, and of
\* the line on the link once it has drained, is 50 (204800 / 4095 = 50.01).
C4_Moisture2048_Is50 ==
  (pc = "toggle" /\ moisture_raw = 2048) =>
    /\ EndsCRLF(sent)
    /\ Field(sent, KEY_MOISTURE) = [ok |-> TRUE, val |-> 50]
    /\ (Drained => Field(rx, KEY_MOISTURE) = [ok |-> TRUE, val |-> 50])

C4_Witness ==
  /\ pc = "toggle" /\ moisture_raw = 2048 /\ ADC_CHSELR = {1} /\ Drained
  /\ Field(rx, KEY_MOISTURE).val = 50

\* C5: the rain field of the record of an iteration is the negation of bit 4
\* of GPIOA_IDR as sampled in that iteration (low: 1, high: 0), whatever the
\* other bits of the register are.
C5_RainActiveLow ==
  (pc = "toggle") =>
    LET want == [ok |-> TRUE, val |-> IF RAIN_PIN \in GPIOA_IDR THEN 0 ELSE 1]
    IN  /\ EndsCRLF(sent)
        /\ Field(sent, KEY_RAIN) = want
        /\ (Drained => Field(rx, KEY_RAIN) = want)

C5_Witness ==
  /\ pc = "toggle" /\ GPIOA_IDR = (0..15) \ {RAIN_PIN} /\ Drained
  /\ Field(rx, KEY_RAIN) = [ok |-> TRUE, val |-> 1]

\* C6: after k completed iterations bit 5 of GPIOA_ODR is its value at loop
\* entry when k is even and the complement when k is odd; the other bits
\* are those of loop entry; the register is written by the toggle only,
\* which flips bit 5 and nothing else.
C6_LedParity ==
  /\ [](pc = "loop_top" =>
          /\ (LED \in GPIOA_ODR) = IF k % 2 = 0 THEN LED \in odr0
                                   ELSE LED \notin odr0
          /\ GPIOA_ODR \ {LED} = odr0 \ {LED})
  /\ [][GPIOA_ODR' # GPIOA_ODR =>
          /\ pc = "toggle"
          /\ (LED \in GPIOA_ODR') = (LED \notin GPIOA_ODR)
          /\ GPIOA_ODR' \ {LED} = GPIOA_ODR \ {LED}]_vars

C6_Witness ==
  pc = "loop_top" /\ k = 3 /\ LED \in GPIOA_ODR /\ LED \notin odr0

\* the four initialisers have completed
InitDone ==
  /\ {17, 18} \subseteq RCC_AHBENR /\ 9 \in RCC_APB2ENR /\ 17 \in RCC_APB1ENR
  /\ {0, 1, 2, 3, 5, 7, 10} \subseteq GPIOA_MODER
  /\ GPIOA_MODER \cap {4, 6, 8, 9, 11} = {}
  /\ {8, 12} \subseteq GPIOA_AFR0 /\ 8 \in GPIOA_PUPDR
  /\ USART2_BRR = 69 /\ {0, 2, 3} \subseteq USART2_CR1
  /\ ADEN \in ADC_CR /\ ADCAL \notin ADC_CR /\ ADRDY \in ADC_ISR

InitPcs == {"init_clocks", "init_gpio", "init_usart", "adc_cal",
            "adc_cal_wait", "adc_en", "adc_rdy_wait"}
LoopPcs == {"loop_entry", "loop_top", "adc0_start", "adc0_wait", "adc0_ret",
            "adc1_start", "adc1_wait", "adc1_ret", "rain", "compute",
            "send_json", "toggle", "delay_loop"}

Initializing == pc \in InitPcs
Running == pc \in LoopPcs \/ (pc \in {"tx_wait", "tx_write"} /\ ret = "toggle")

\* no analog read has begun
NoAnalogRead ==
  ADC_CHSELR = {} /\ ADSTART \notin ADC_CR /\ EOC \notin ADC_ISR

\* C7: the banner line is transmitted exactly once: after the four
\* initialisers have completed, before the first analog read and before the
\* first byte of a record; it is not transmitted again once the loop runs.
C7_BannerOnce ==
  /\ banners <= 1
  /\ (sent # <<>> => InitDone)
  /\ (banners = 0 =>
        /\ IsPrefix(sent, Text(BANNER)) /\ IsPrefix(rx, Text(BANNER))
        /\ NoAnalogRead /\ ~Running)
  /\ (Running => banners = 1)
  /\ (banners = 1 /\ sent # Text(BANNER) =>
        /\ Head(sent) = 123 /\ ~IsPrefix(sent, Text(BANNER))
        /\ sentPrev # <<>> /\ (sentPrev # Text(BANNER) => Head(sentPrev) = 123))

C7_Witness ==
  /\ pc = "loop_top" /\ k = 1 /\ banners = 1 /\ sentPrev = Text(BANNER)
  /\ EndsCRLF(sent) /\ Head(sent) = 123

\* a complete record line
IsRecordLine(s) ==
  /\ EndsCRLF(s) /\ IsPrefix(Text(S_MOISTURE), s)
  /\ Field(s, KEY_MOISTURE).ok /\ Field(s, KEY_TEMP).ok /\ Field(s, KEY_PH).ok
  /\ Field(s, KEY_RAIN).ok /\ Field(s, KEY_WATER).ok

\* C8: with peripherals that complete what they are asked to do,
\* initialisation terminates and is never re-entered, the program reaches
\* the loop and stays in it, every iteration passes exactly one complete
\* record to the transmitter, and iterations and record lines on the link
\* recur for ever.
C8_RunsForever ==
  /\ <>Running
  /\ [][~Initializing => ~Initializing']_vars
  /\ [][Running => Running']_vars
  /\ [](pc = "delay_loop" => recs = 1 /\ IsRecordLine(sent))
  /\ []<>(pc = "adc0_start" /\ recs = 0)
  /\ []<>(pc = "toggle" /\ recs = 1 /\ IsRecordLine(sent))
  /\ []<>(IsRecordLine(rx))
  /\ []<>(~EndsCRLF(rx))

C8_Witness ==
  pc = "delay_loop" /\ k = 2 /\ recs = 1 /\ IsRecordLine(rx) /\ rx = sent

\* the program is in a busy-wait whose flag does not have the awaited value
Blocked ==
  \/ pc = "adc_cal_wait" /\ ADCAL \in ADC_CR
  \/ pc = "adc_rdy_wait" /\ ADRDY \notin ADC_ISR
  \/ pc \in {"adc0_wait", "adc1_wait"} /\ EOC \notin ADC_ISR
  \/ pc = "tx_wait" /\ TXE \notin USART2_ISR

\* C9: while a polled flag does not have the awaited value the program
\* stays in that busy-wait: no step taken from such a state moves the
\* program, writes the transmit data register or toggles the indicator.
C9_HangsInWait ==
  [][Blocked =>
       /\ pc' = pc /\ ret' = ret /\ txbuf' = txbuf
       /\ USART2_TDR' = USART2_TDR /\ sent' = sent
       /\ GPIOA_ODR' = GPIOA_ODR /\ k' = k]_vars

C9_Witness ==
  /\ pc = "adc1_wait" /\ EOC \notin ADC_ISR /\ ADSTART \in ADC_CR
  /\ ~Drained /\ k = 1

\* the byte waiting in the transmit data register
Pending == IF Drained THEN <<>> ELSE <<USART2_TDR>>

\* C10: the transmit data register is written only when TXE is set, and the
\* bytes on the link followed by the byte waiting in the register are
\* exactly the bytes passed to uart_putchar, in order; the banner arrives
\* whole, without its NUL.
C10_LinkCarriesSent ==
  /\ [](\/ rx \o Pending = sent
        \/ rx = sentPrev /\ EndsCRLF(rx) /\ Pending = sent)
  /\ [](pc = "loop_entry" =>
          /\ sent = Text(BANNER)
          /\ (Drained => rx = Text(BANNER)))
  /\ [][sent' # sent \/ USART2_TDR' # USART2_TDR =>
          pc = "tx_write" /\ TXE \in USART2_ISR]_vars

C10_Witness ==
  /\ pc = "adc0_wait" /\ k = 1 /\ ~Drained /\ USART2_TDR = 10
  /\ rx \o Pending = sent /\ IsRecordLine(sent)

====
